---- MODULE Spec2Model ----
(***************************************************************************)
(* vscode-slim-lint: the linting engine (src/linter.ts) and the document   *)
(* event dispatcher (src/extension.ts).                                    *)
(*                                                                         *)
(* Strings are sequences of one-character strings, a document's text is a  *)
(* sequence of lines, and the tool's stdout is a sequence of output lines. *)
(* A lint cycle awaiting its subprocess is an element of procs; the        *)
(* subprocess's result is chosen when the await resumes (Complete).        *)
(***************************************************************************)
EXTENDS Integers, Sequences, FiniteSets, TLC

VARIABLES
    activated,   \* extension.ts: activate() has run
    disposed,    \* Linter.disposed
    isOpen,      \* host: which documents are open in the editor
    docText,     \* host: document.getText() of every document
    collection,  \* Linter.collection: uri -> diagnostics, or NoEntry
    procs,       \* lint cycles suspended at `await this.executeSlimLint`
    lastOp,      \* what the last handler did (observation only)
    parsed,      \* a direct call of parseOutput: its arguments and its result
    fileText,    \* host: the content of every document's file on disk
    fresh,       \* whether a lint cycle on the document's present text has been
                 \* started by an event (observation only)
    built,       \* a direct call of getConfiguration and buildCommandArgs: the
                 \* settings and the result
    lastIndex    \* SLIM_LINT_OUTPUT_REGEX.lastIndex, in lines of output

vars == <<activated, disposed, isOpen, docText, collection, procs, lastOp, parsed,
          fileText, fresh, built, lastIndex>>

----------------------------------------------------------------------------
(* Bounds *)

\* lint cycles that may be awaiting their subprocess at the same time
MaxInFlight == 2

\* direct calls of parseOutput: lines of tool output, lines of the document,
\* and the largest one-digit line number the tool reports
MaxOutputLines == 2
MaxLines == 2
MaxLineNumber == 3

\* direct calls of buildCommandArgs: characters of the executablePath setting
MaxPathLen == 3

----------------------------------------------------------------------------
(* Program constants *)

SLIM_LANGUAGE_ID == "slim"
DEFAULT_CONFIG_FILE == ".slim-lint.yml"

----------------------------------------------------------------------------
(* The host's documents *)

Docs == {"a_slim", "b_js", "a_untitled"}

\* the documents the host sends events for; the untitled buffer is handed to
\* the engine directly
WorkspaceDocs == {"a_slim", "b_js"}

\* vscode.workspace.textDocuments is an array: activation visits it in order
DocOrder == <<"a_slim", "b_js">>

languageId(d) == IF d = "b_js" THEN "javascript" ELSE "slim"

scheme(d) == IF d = "a_untitled" THEN "untitled" ELSE "file"

fsPath(d) == IF d = "b_js" THEN "/w/b.js" ELSE "/w/a.slim"

uri(d) == <<scheme(d), fsPath(d)>>

\* the workspace document whose file is at document d's path
FileOf(d) == IF d = "b_js" THEN "b_js" ELSE "a_slim"

Uris == {uri(d) : d \in Docs}

\* Two texts: one line, and two lines of which the second is indented.
Texts == { << <<"a">> >>, << <<"a">>, <<" ", "b">> >> }

lineCount(t) == Len(t)

RECURSIVE firstNonWs(_, _)
firstNonWs(ln, i) ==
    IF i > Len(ln) THEN Len(ln)
    ELSE IF ln[i] # " " THEN i - 1
    ELSE firstNonWs(ln, i + 1)

\* TextLine.firstNonWhitespaceCharacterIndex
firstNonWhitespaceCharacterIndex(ln) == firstNonWs(ln, 1)

----------------------------------------------------------------------------
(* Settings: workspace.getConfiguration('slimLint'), read afresh by every  *)
(* lint, is an input of run                                                *)

Blank(s) == \A i \in 1..Len(s) : s[i] = " "

\* as configured, with a whitespace-only executablePath, and with an empty
\* configurationPath
SettingsValues ==
    { [executablePath |-> <<"x">>, configurationPath |-> <<"c">>],
      [executablePath |-> <<" ">>, configurationPath |-> <<"c">>],
      [executablePath |-> <<"x">>, configurationPath |-> <<>>] }

\* mutant: only executablePath is validated
ConfigurationValid_ExecutableOnly(cfg) == ~Blank(cfg.executablePath)

\* getConfiguration returns normally (does not throw)
ConfigurationValid(cfg) ==
    /\ ~Blank(cfg.executablePath)
    /\ ~Blank(cfg.configurationPath)

\* the configuration files that exist on disk (fs.existsSync)
ExistingFiles == { <<"c">>, <<"/cwd/", DEFAULT_CONFIG_FILE>> }

DropSpaces(s) ==
    IF \A i \in 1..Len(s) : s[i] = " " THEN <<>>
    ELSE SubSeq(s, CHOOSE i \in 1..Len(s) :
                      s[i] # " " /\ \A j \in 1..(i - 1) : s[j] = " ", Len(s))

RECURSIVE splitFrom(_, _)
\* the tokens of s from its current token cur on
splitFrom(s, cur) ==
    IF s = <<>> THEN <<cur>>
    ELSE IF Head(s) = " " THEN <<cur>> \o splitFrom(DropSpaces(s), <<>>)
    ELSE splitFrom(Tail(s), Append(cur, Head(s)))

\* String.prototype.split(/\s+/)
split(s) == splitFrom(s, <<>>)

\* mutant: the default name is not joined with the project root
resolveConfigurationPath_NoJoin(configPath) == configPath

resolveConfigurationPath(configPath) ==
    IF configPath = <<DEFAULT_CONFIG_FILE>> THEN <<"/cwd/">> \o configPath
    ELSE configPath

\* every argument is a string (a sequence), the option name a string of one
\* piece
buildCommandArgs(config, documentPath) ==
    LET resolvedConfigPath == resolveConfigurationPath(config.configurationPath) IN
    split(config.executablePath)
    \o (IF resolvedConfigPath \in ExistingFiles
        THEN << <<"--config">>, resolvedConfigPath >>
        ELSE <<>>)
    \o << <<documentPath>> >>

\* no direct call yet
NotBuilt == [config |-> [executablePath |-> <<>>, configurationPath |-> <<>>],
             done |-> FALSE, threw |-> FALSE, args |-> <<>>]

----------------------------------------------------------------------------
(* Tool output and its parsing *)

Issue(n, s) == [kind |-> "issue", lineStr |-> n, sev |-> s, rule |-> "Rule", msg |-> "Msg"]

Junk == [kind |-> "junk", lineStr |-> <<>>, sev |-> "", rule |-> "", msg |-> ""]

\* what the external tool may print on stdout
ToolOutputs ==
    { <<>>,
      << Issue(<<1>>, "W") >>,
      << Issue(<<2>>, "E"), Junk, Issue(<<1>>, "W") >> }

RECURSIVE Decimal(_)
\* the decimal digits the tool prints for a line number
Decimal(n) == IF n < 10 THEN <<n>> ELSE Decimal(n \div 10) \o <<n % 10>>

RECURSIVE parseInt(_)
parseInt(digits) ==
    IF digits = <<>> THEN 0
    ELSE 10 * parseInt(SubSeq(digits, 1, Len(digits) - 1)) + digits[Len(digits)]

Max(a, b) == IF a >= b THEN a ELSE b

NoDiagnostic == [none |-> TRUE]

\* mutant: the reported line number taken as zero-based
createDiagnostic_OneBased(m, t) ==
    LET line == parseInt(m.lineStr) IN
    IF line >= lineCount(t) THEN NoDiagnostic
    ELSE [ line     |-> line,
           startCol |-> firstNonWhitespaceCharacterIndex(t[line + 1]),
           endCol   |-> Len(t[line + 1]),
           message  |-> <<m.rule, ": ", m.msg>>,
           severity |-> IF m.sev = "W" THEN "Warning" ELSE "Error" ]

\* mutant: without Math.max, document.lineAt(-1) throws and the catch clause
\* returns null
createDiagnostic_NoClamp(m, t) ==
    LET line == parseInt(m.lineStr) - 1 IN
    IF line < 0 \/ line >= lineCount(t) THEN NoDiagnostic
    ELSE [ line     |-> line,
           startCol |-> firstNonWhitespaceCharacterIndex(t[line + 1]),
           endCol   |-> Len(t[line + 1]),
           message  |-> <<m.rule, ": ", m.msg>>,
           severity |-> IF m.sev = "W" THEN "Warning" ELSE "Error" ]

\* mutant: without the comparison with document.lineCount, on a host whose
\* lineAt gives an empty line beyond the document
createDiagnostic_NoLineCountCheck(m, t) ==
    LET line == Max(parseInt(m.lineStr) - 1, 0) IN
    [ line     |-> line,
      startCol |-> IF line < lineCount(t)
                   THEN firstNonWhitespaceCharacterIndex(t[line + 1]) ELSE 0,
      endCol   |-> IF line < lineCount(t) THEN Len(t[line + 1]) ELSE 0,
      message  |-> <<m.rule, ": ", m.msg>>,
      severity |-> IF m.sev = "W" THEN "Warning" ELSE "Error" ]

\* a document stub whose lineAt throws for a line has Unreadable as that line
Unreadable == <<"lineAt throws">>

\* document.lineAt(line) throws
lineAtThrows(t, line) == t[line + 1] = Unreadable

\* (the catch clause logs the error and returns null)
createDiagnostic(m, t) ==
    LET line == Max(parseInt(m.lineStr) - 1, 0) IN
    IF line >= lineCount(t) THEN NoDiagnostic
    ELSE IF lineAtThrows(t, line) THEN NoDiagnostic
    ELSE [ line     |-> line,
           startCol |-> firstNonWhitespaceCharacterIndex(t[line + 1]),
           endCol   |-> Len(t[line + 1]),
           message  |-> <<m.rule, ": ", m.msg>>,
           severity |-> IF m.sev = "W" THEN "Warning" ELSE "Error" ]

RECURSIVE parseOutput_StopAtNull(_, _)
\* mutant: the loop ends at the first match without a diagnostic
parseOutput_StopAtNull(output, t) ==
    IF output = <<>> THEN <<>>
    ELSE LET m == Head(output) IN
         IF m.kind # "issue" THEN parseOutput_StopAtNull(Tail(output), t)
         ELSE LET diagnostic == createDiagnostic(m, t) IN
              IF diagnostic = NoDiagnostic THEN <<>>
              ELSE <<diagnostic>> \o parseOutput_StopAtNull(Tail(output), t)

RECURSIVE parseOutput_NoPatternTest(_, _)
\* mutant: every output line is taken as a match
parseOutput_NoPatternTest(output, t) ==
    IF output = <<>> THEN <<>>
    ELSE LET diagnostic == createDiagnostic(Head(output), t) IN
         IF diagnostic = NoDiagnostic THEN parseOutput_NoPatternTest(Tail(output), t)
         ELSE <<diagnostic>> \o parseOutput_NoPatternTest(Tail(output), t)

RECURSIVE parseOutput_ThrowEscapes(_, _)
\* mutant: createDiagnostic without its try/catch: what lineAt throws ends
\* parseOutput, and no diagnostic of the output is left
parseOutput_ThrowEscapes(output, t) ==
    IF \E j \in 1..Len(output) :
           /\ output[j].kind = "issue"
           /\ Max(parseInt(output[j].lineStr) - 1, 0) < lineCount(t)
           /\ lineAtThrows(t, Max(parseInt(output[j].lineStr) - 1, 0))
    THEN <<>>
    ELSE IF output = <<>> THEN <<>>
    ELSE LET m == Head(output)
             rest == parseOutput_ThrowEscapes(Tail(output), t)
         IN IF m.kind # "issue" THEN rest
            ELSE LET diagnostic == createDiagnostic(m, t) IN
                 IF diagnostic = NoDiagnostic THEN rest
                 ELSE <<diagnostic>> \o rest

RECURSIVE parseOutput_Sorted(_, _)
\* mutant: the diagnostics kept in the order of their lines (a diagnostic is
\* put before those already found for later output that are on higher lines)
parseOutput_Sorted(output, t) ==
    IF output = <<>> THEN <<>>
    ELSE LET m == Head(output)
             rest == parseOutput_Sorted(Tail(output), t)
         IN IF m.kind # "issue" THEN rest
            ELSE LET diagnostic == createDiagnostic(m, t) IN
                 IF diagnostic = NoDiagnostic THEN rest
                 ELSE SelectSeq(rest, LAMBDA x : x.line < diagnostic.line)
                      \o <<diagnostic>>
                      \o SelectSeq(rest, LAMBDA x : x.line >= diagnostic.line)

\* the matches of the pattern in a string, found from the first one on
RECURSIVE parseOutput(_, _)
parseOutput(output, t) ==
    IF output = <<>> THEN <<>>
    ELSE LET m == Head(output)
             rest == parseOutput(Tail(output), t)
         IN IF m.kind # "issue" THEN rest
            ELSE LET diagnostic == createDiagnostic(m, t) IN
                 IF diagnostic = NoDiagnostic THEN rest
                 ELSE <<diagnostic>> \o rest

\* what of a string lies behind the scan position k
Drop(s, k) == SubSeq(s, k + 1, Len(s))

\* SLIM_LINT_OUTPUT_REGEX.exec(output) with lastIndex at k: the place of the
\* next match, which becomes lastIndex, or 0 for null, which resets lastIndex
exec(output, k) ==
    LET found == {j \in (k + 1)..Len(output) : output[j].kind = "issue"}
    IN IF found = {} THEN 0 ELSE CHOOSE j \in found : \A i \in found : j <= i

\* mutant: a parser whose diagnostic construction is not guarded: the loop is
\* left at the first match whose line is beyond the document or cannot be
\* read, with the scan position behind that match
lastIndexAfter_ThrowEscapes(output, t, k) ==
    LET bad == {j \in (k + 1)..Len(output) :
                   /\ output[j].kind = "issue"
                   /\ createDiagnostic(output[j], t) = NoDiagnostic}
    IN IF bad = {} THEN 0 ELSE CHOOSE j \in bad : \A i \in bad : j <= i

RECURSIVE lastIndexAfter(_, _, _)
\* SLIM_LINT_OUTPUT_REGEX.lastIndex when parseOutput, called with the scan
\* position at k, returns: the loop goes from match to match until exec
\* returns null; createDiagnostic catches what it throws, so nothing ends
\* the loop before
lastIndexAfter(output, t, k) ==
    IF exec(output, k) = 0 THEN 0
    ELSE lastIndexAfter(output, t, exec(output, k))

----------------------------------------------------------------------------
(* Subprocess results, as `await execaProcess` delivers them *)

\* stderr is "", "warning" (other text) or "error" (text the code reports)
\* stderr.includes('error') || stderr.includes('not found')
StderrIsError(s) == s = "error"

Outcome(kind, stdout, stderr, thrown) ==
    [kind |-> kind, stdout |-> stdout, stderr |-> stderr, thrown |-> thrown]

\* the subprocess's exit code: the tool exits with 0 only when it ran to its
\* end and had nothing to report; the engine never reads it (reject: false)
exitCode(o) ==
    IF o.kind = "exit" /\ o.stdout = <<>> /\ o.stderr = "" THEN 0 ELSE 1

\* mutant: execa without the timeout option
LintTimeouts_None == {}

\* killed at LINT_TIMEOUT (30 s): with reject:false the promise resolves, with
\* whatever was printed before the kill
LintTimeouts == { Outcome("timeout", <<>>, "", FALSE) }

Outcomes ==
    \* the tool ran to its end (any exit code)
    { Outcome("exit", o, "", FALSE) : o \in ToolOutputs }
    \cup
    { Outcome("exit", <<>>, "warning", FALSE),
      Outcome("exit", << Issue(<<1>>, "W") >>, "error", FALSE) }
    \cup
    LintTimeouts
    \cup
    {
    \* launch failure: rejected (caught by executeSlimLint) or, with
    \* reject:false, resolved with empty streams
      Outcome("launchfail", <<>>, "", TRUE),
      Outcome("launchfail", <<>>, "", FALSE) }

----------------------------------------------------------------------------
(* Engine: src/linter.ts *)

\* the diagnostic store's entry for a uri
NoEntry == [present |-> FALSE, diagnostics |-> <<>>]

Entry(diagnostics) == [present |-> TRUE, diagnostics |-> diagnostics]

\* mutant: the language filter dropped
shouldLintDocument_AnyLanguage(d) == TRUE

shouldLintDocument(d) == languageId(d) = SLIM_LANGUAGE_ID

\* mutant: the scheme test dropped
isFileDocument_AnyScheme(d) == TRUE

isFileDocument(d) == scheme(d) = "file"

Op(op, d, res, err) ==
    [op |-> op, doc |-> d, res |-> res, err |-> err,
     kind |-> "none", stdout |-> <<>>, stderr |-> "", thrown |-> FALSE,
     sup |-> FALSE, replaced |-> FALSE, threw |-> FALSE, command |-> <<>>]

\* mutant: run and lint without their `if (this.disposed) return`
RunStarts_NoDisposedCheck(d, cfg) ==
    /\ languageId(d) = SLIM_LANGUAGE_ID
    /\ ConfigurationValid(cfg)

\* run(document) reaches `await this.executeSlimLint(...)`
RunStarts(d, cfg) ==
    /\ ~disposed
    /\ shouldLintDocument(d)
    /\ ConfigurationValid(cfg)

\* the outcome of run(document), before any await resumes
RunResult(d, cfg) ==
    IF disposed THEN "noop"
    ELSE IF ~shouldLintDocument(d) THEN "skipped"
    ELSE IF ~ConfigurationValid(cfg) THEN "configerror"
    ELSE "started"

\* mutant: a catch clause that rethrows
lintCatch_Rethrow(raised) == [shown |-> raised /\ ~disposed, rethrown |-> raised]

\* the catch clause of lint(document): the error is logged, shown to the user
\* unless the engine is disposed, and not rethrown
lintCatch(raised) == [shown |-> raised /\ ~disposed, rethrown |-> FALSE]

\* an error leaves run(document): lint is not awaited, so this is the
\* rejection of its promise
runThrows(d, cfg) == lintCatch(RunResult(d, cfg) = "configerror").rethrown

\* mutant: the command line is built once and kept across cycles
lint_CachedCommand(ps, d, cfg, text) ==
    [i \in 1..Len(ps) |->
        IF ps[i].doc = d THEN [ps[i] EXCEPT !.sup = TRUE] ELSE ps[i]]
    \o << [doc |-> d, originalText |-> text, sup |-> FALSE,
            command |-> IF ps = <<>> THEN buildCommandArgs(cfg, fsPath(d))
                        ELSE ps[1].command,
            linted |-> fileText'[FileOf(d)]] >>

\* lint(document) up to its await: the cycle's snapshot is taken and its
\* command line built from the settings read at the call; the older cycles
\* of the same document are marked superseded (observation only: the code
\* keeps no handle on them)
\* (text is document.getText() at the call)
\* (linted is what the subprocess, once spawned, reads at the path it is given)
lint(ps, d, cfg, text) ==
    [i \in 1..Len(ps) |->
        IF ps[i].doc = d THEN [ps[i] EXCEPT !.sup = TRUE] ELSE ps[i]]
    \o << [doc |-> d, originalText |-> text, sup |-> FALSE,
            command |-> buildCommandArgs(cfg, fsPath(d)),
            linted |-> fileText'[FileOf(d)]] >>

runProcs(ps, d, cfg, text) == IF RunStarts(d, cfg) THEN lint(ps, d, cfg, text) ELSE ps

run(d, cfg, text) ==
    /\ RunStarts(d, cfg) => Len(procs) < MaxInFlight
    /\ procs' = runProcs(procs, d, cfg, text)
    /\ UNCHANGED <<disposed, collection>>

clear(d) ==
    /\ collection' =
          IF ~disposed /\ isFileDocument(d)
          THEN [collection EXCEPT ![uri(d)] = NoEntry]
          ELSE collection
    /\ UNCHANGED <<disposed, procs>>

\* mutant: dispose without its `if (this.disposed) return`
disposeReturnsEarly_Never == FALSE

\* dispose returns at its first statement
disposeReturnsEarly == disposed

dispose ==
    /\ disposed' = TRUE
    /\ collection' = IF disposeReturnsEarly THEN collection ELSE [u \in Uris |-> NoEntry]
    /\ UNCHANGED procs

\* mutant: set without the preceding delete, on a store that merges
updateDiagnostics_Merge(coll, d, diagnostics) ==
    IF disposed THEN coll
    ELSE [coll EXCEPT ![uri(d)] = Entry(coll[uri(d)].diagnostics \o diagnostics)]

\* mutant: collection.clear() in place of collection.delete(uri)
updateDiagnostics_ClearAll(coll, d, diagnostics) ==
    IF disposed THEN coll
    ELSE [u \in Uris |-> IF u = uri(d) THEN Entry(diagnostics) ELSE NoEntry]

updateDiagnostics(coll, d, diagnostics) ==
    IF disposed THEN coll ELSE [coll EXCEPT ![uri(d)] = Entry(diagnostics)]

\* mutant: execa without `reject: false` rejects on a non-zero exit code
executeSlimLint_RejectOnExitCode(o) ==
    IF o.thrown \/ exitCode(o) # 0 THEN [stdout |-> <<>>, stderr |-> "not found"]
    ELSE [stdout |-> o.stdout, stderr |-> o.stderr]

\* what executeSlimLint returns for a subprocess result
executeSlimLint(o) ==
    IF o.thrown THEN [stdout |-> <<>>, stderr |-> "not found"]
    ELSE [stdout |-> o.stdout, stderr |-> o.stderr]

\* executeSlimLint calls window.showErrorMessage
executeShowsError(o) == o.thrown \/ StderrIsError(o.stderr)

\* executeSlimLint writes to the output channel
executeLogs(o) == o.thrown \/ o.stderr # ""

\* the place in procs of the cycle whose subprocess the engine holds a
\* handle on for document d, 0 for none: the engine has no field for it
processes(ps, d) == 0

RemoveAt(s, i) == SubSeq(s, 1, i - 1) \o SubSeq(s, i + 1, Len(s))

\* mutant: the text comparison dropped
CompleteResult_NoTextCheck(p) ==
    IF disposed THEN "dropped" ELSE "commit"

\* mutant: the continuation always takes the text for changed
CompleteResult_NeverCommit(p) ==
    IF disposed THEN "dropped" ELSE "stale"

\* mutant: the disposed re-check after the await dropped
CompleteResult_NoDisposedCheck(p) ==
    IF p.originalText # docText[p.doc] THEN "stale" ELSE "commit"

\* the continuation of lint(document) after the await
CompleteResult(p) ==
    IF disposed THEN "dropped"
    ELSE IF p.originalText # docText[p.doc] THEN "stale"
    ELSE "commit"

Complete(i, o) ==
    /\ i \in 1..Len(procs)
    /\ LET p == procs[i]
           r == executeSlimLint(o)
           res == CompleteResult(p)
       IN /\ collection' =
                IF res = "commit"
                THEN updateDiagnostics(collection, p.doc,
                                       parseOutput(Drop(r.stdout, lastIndex), docText[p.doc]))
                ELSE collection
          /\ lastIndex' =
                IF res = "commit"
                THEN lastIndexAfter(r.stdout, docText[p.doc], lastIndex)
                ELSE lastIndex
          /\ lastOp' = [op |-> "complete", doc |-> p.doc, res |-> res,
                        err |-> executeShowsError(o),
                        kind |-> o.kind, stderr |-> o.stderr, thrown |-> o.thrown,
                        stdout |-> IF res = "commit" THEN o.stdout ELSE <<>>,
                        sup |-> p.sup,
                        threw |-> lintCatch(FALSE).rethrown,
                        command |-> p.command,
                        replaced |-> /\ res = "commit"
                                     /\ collection[uri(p.doc)].diagnostics # <<>>]
    /\ procs' = RemoveAt(procs, i)
    /\ UNCHANGED <<parsed, built, fileText, fresh, activated, disposed, isOpen, docText>>

----------------------------------------------------------------------------
(* Engine API called directly, as the unit tests do, on document stubs *)

Run(d, cfg) ==
    /\ UNCHANGED fileText
    /\ run(d, cfg, docText[d])
    /\ lastOp' = [Op("run", d, RunResult(d, cfg),
                      lintCatch(RunResult(d, cfg) = "configerror").shown)
                   EXCEPT !.threw = runThrows(d, cfg)]
    /\ UNCHANGED <<parsed, built, lastIndex, fresh, activated, isOpen, docText>>

Clear(d) ==
    /\ clear(d)
    /\ lastOp' = Op("clear", d, IF disposed THEN "noop"
                                ELSE IF isFileDocument(d) THEN "cleared"
                                ELSE "skipped", FALSE)
    /\ UNCHANGED <<parsed, built, lastIndex, fileText, fresh, activated, isOpen, docText>>

\* res is "disposed" for a call that logged 'Disposing linter ...' and
\* called collection.dispose(), "noop" for one that returned before
Dispose ==
    /\ dispose
    /\ lastOp' = Op("dispose", "a_slim",
                    IF disposeReturnsEarly THEN "noop" ELSE "disposed", FALSE)
    /\ UNCHANGED <<parsed, built, lastIndex, fileText, fresh, activated, isOpen, docText>>

\* a document stub whose getText() returns another text
SetText(d, t) ==
    /\ shouldLintDocument(d)   \* run never reads the text of another document
    /\ t # docText[d]
    /\ docText' = [docText EXCEPT ![d] = t]
    /\ lastOp' = Op("edit", "a_slim", "none", FALSE)
    /\ UNCHANGED <<parsed, built, lastIndex, fileText, fresh, activated, disposed, isOpen, collection, procs>>

----------------------------------------------------------------------------
(* Dispatcher: src/extension.ts *)

\* mutant: closures without their try/catch
closureCatch_Rethrow(raised) == [logged |-> raised, rethrown |-> raised]

\* the catch clause of both closures: the error is logged and not rethrown
closureCatch(raised) == [logged |-> raised, rethrown |-> FALSE]

\* mutant: the closure forwards nothing
extUpdateDiagnostics_Drop(d, cfg, text, fault) ==
    UNCHANGED <<disposed, collection, procs>>

\* the closure updateDiagnostics of activate(): guards, then linter.run
\* (fault: the call of linter.run throws before it has done anything)
extUpdateDiagnostics(d, cfg, text, fault) ==
    IF ~disposed /\ ~fault THEN run(d, cfg, text)
    ELSE UNCHANGED <<disposed, collection, procs>>

\* the closure clearDiagnostics of activate(): guards, then linter.clear
\* (fault: the call of linter.clear throws before it has done anything)
clearDiagnostics(d, fault) ==
    IF ~disposed /\ ~fault THEN clear(d)
    ELSE UNCHANGED <<disposed, collection, procs>>

ExtRunResult(d, cfg, fault) ==
    IF disposed THEN "guarded"
    ELSE IF fault THEN "caught"
    ELSE RunResult(d, cfg)

\* an error leaves the closure: a synchronous throw of the engine call passes
\* through the catch clause, a rejection of lint's promise does not
closureThrows(d, cfg, fault) ==
    IF disposed THEN FALSE
    ELSE IF fault THEN closureCatch(TRUE).rethrown
    ELSE runThrows(d, cfg)

\* what a handler that forwards to linter.run did
ExtOp(op, d, cfg, fault) ==
    [Op(op, d, ExtRunResult(d, cfg, fault), ExtRunResult(d, cfg, fault) = "configerror")
        EXCEPT !.threw = closureThrows(d, cfg, fault)]

RECURSIVE lintOpenDocuments(_, _, _)
\* vscode.workspace.textDocuments.forEach(updateDiagnostics)
lintOpenDocuments(ps, ds, cfg) ==
    IF ds = <<>> THEN ps
    ELSE lintOpenDocuments(
             IF isOpen[Head(ds)] /\ ~disposed THEN runProcs(ps, Head(ds), cfg, docText[Head(ds)]) ELSE ps,
             Tail(ds), cfg)

activate(cfg) ==
    /\ ~activated
    /\ activated' = TRUE
    /\ Len(lintOpenDocuments(procs, DocOrder, cfg)) <= MaxInFlight
    /\ procs' = lintOpenDocuments(procs, DocOrder, cfg)
    /\ lastOp' = Op("activate", "a_slim",
                    IF procs' # procs THEN "started" ELSE "none",
                    \E d \in Docs : isOpen[d] /\ RunResult(d, cfg) = "configerror")
    /\ UNCHANGED <<parsed, built, lastIndex, disposed, isOpen, docText, collection>>

deactivate ==
    /\ activated
    /\ dispose
    /\ lastOp' = Op("deactivate", "a_slim", IF disposed THEN "noop" ELSE "disposed", FALSE)
    /\ UNCHANGED <<parsed, built, lastIndex, fileText, fresh, activated, isOpen, docText>>

onDidOpenTextDocument(d, cfg, fault) ==
    /\ activated
    /\ ~isOpen[d]
    /\ isOpen' = [isOpen EXCEPT ![d] = TRUE]
    /\ extUpdateDiagnostics(d, cfg, docText[d], fault)
    /\ lastOp' = ExtOp("open", d, cfg, fault)
    /\ UNCHANGED <<parsed, built, lastIndex, activated, docText>>

onDidSaveTextDocument(d, cfg, fault) ==
    /\ activated
    /\ isOpen[d]
    /\ scheme(d) = "file"
    /\ extUpdateDiagnostics(d, cfg, docText[d], fault)
    /\ lastOp' = ExtOp("save", d, cfg, fault)
    /\ UNCHANGED <<parsed, built, lastIndex, activated, isOpen, docText>>

\* mutant: no listener for content changes
onDidChangeTextDocument_NoListener(d, t, cfg, fault) ==
    /\ activated
    /\ isOpen[d]
    /\ IF languageId(d) = "slim"
       THEN t # docText[d] /\ docText' = [docText EXCEPT ![d] = t]
       ELSE t = docText[d] /\ UNCHANGED docText
    /\ UNCHANGED <<disposed, collection, procs>>
    /\ lastOp' = Op("change", d, "none", FALSE)
    /\ UNCHANGED <<parsed, built, lastIndex, activated, isOpen>>

\* handleDocumentChange: the host has applied the edit when the event fires
onDidChangeTextDocument(d, t, cfg, fault) ==
    /\ activated
    /\ isOpen[d]
    /\ IF languageId(d) = "slim"
       THEN t # docText[d] /\ docText' = [docText EXCEPT ![d] = t]
       ELSE t = docText[d] /\ UNCHANGED docText   \* content not tracked
    /\ extUpdateDiagnostics(d, cfg, t, fault)
    /\ lastOp' = ExtOp("change", d, cfg, fault)
    /\ UNCHANGED <<parsed, built, lastIndex, activated, isOpen>>

onDidCloseTextDocument(d, fault) ==
    /\ activated
    /\ isOpen[d]
    /\ isOpen' = [isOpen EXCEPT ![d] = FALSE]
    /\ clearDiagnostics(d, fault)
    /\ lastOp' = [Op("close", d, IF disposed THEN "guarded"
                                 ELSE IF fault THEN "caught"
                                 ELSE IF isFileDocument(d) THEN "cleared"
                                 ELSE "skipped", FALSE)
                   EXCEPT !.threw = ~disposed /\ fault /\ closureCatch(TRUE).rethrown]
    /\ UNCHANGED <<parsed, built, lastIndex, fileText, fresh, activated, docText>>

----------------------------------------------------------------------------
(* parseOutput called directly on tool output and a document stub, as the  *)
(* unit tests do                                                           *)

\* a document of k lines, every second one indented
LinesOf(k) == [i \in 1..k |-> IF i % 2 = 1 THEN <<"a">> ELSE <<" ", "b">>]

ParseTexts == {LinesOf(k) : k \in 1..MaxLines}

\* the line numbers the tool reports: 0, the one-digit ones, and 10
ParseLineNumbers == 0..MaxLineNumber \cup {10}

ParseLines ==
    {Issue(Decimal(n), s) : n \in ParseLineNumbers, s \in {"W", "E"}} \cup {Junk}

ParseOutputs ==
    UNION {[1..k -> ParseLines] : k \in 0..MaxOutputLines}

NotParsed == [output |-> <<>>, text |-> LinesOf(1), done |-> FALSE, diagnostics |-> <<>>]

\* const diagnostics = linter.parseOutput(output, document)
ParseOutput ==
    /\ ~parsed.done
    /\ parsed' = [parsed EXCEPT !.done = TRUE,
                                !.diagnostics = parseOutput(Drop(parsed.output, lastIndex),
                                                            parsed.text)]
    /\ lastIndex' = lastIndexAfter(parsed.output, parsed.text, lastIndex)
    /\ UNCHANGED <<activated, disposed, isOpen, docText, collection, procs, lastOp,
                   fileText, fresh, built>>

ParseInit ==
    /\ activated = FALSE
    /\ disposed = FALSE
    /\ isOpen = [d \in Docs |-> FALSE]
    /\ docText = [d \in Docs |-> << <<"a">> >>]
    /\ collection = [u \in Uris |-> NoEntry]
    /\ procs = <<>>
    /\ lastOp = Op("init", "a_slim", "none", FALSE)
    /\ fileText = [d \in WorkspaceDocs |-> << <<"a">> >>]
    /\ fresh = [d \in WorkspaceDocs |-> "none"]
    /\ built = NotBuilt
    /\ lastIndex = 0
    /\ parsed \in {[output |-> o, text |-> t, done |-> FALSE, diagnostics |-> <<>>] :
                       o \in ParseOutputs, t \in ParseTexts}

ParseNext == ParseOutput

ParseSpec == ParseInit /\ [][ParseNext]_vars

----------------------------------------------------------------------------

Init ==
    /\ activated = FALSE
    /\ disposed = FALSE
    /\ isOpen \in [Docs -> BOOLEAN]
    /\ \A d \in Docs \ WorkspaceDocs : ~isOpen[d]
    /\ docText = [d \in Docs |-> << <<"a">> >>]
    /\ collection = [u \in Uris |-> NoEntry]
    /\ procs = <<>>
    /\ lastOp = Op("init", "a_slim", "none", FALSE)
    /\ parsed = NotParsed
    /\ fileText = [d \in WorkspaceDocs |-> docText[d]]
    /\ fresh = [d \in WorkspaceDocs |-> "none"]
    /\ built = NotBuilt
    /\ lastIndex = 0

EngineInit ==
    /\ Init
    /\ isOpen = [d \in Docs |-> FALSE]

EngineNext ==
    \/ \E d \in Docs, cfg \in SettingsValues : Run(d, cfg)
    \/ \E d \in Docs : Clear(d)
    \/ Dispose
    \/ \E d \in Docs, t \in Texts : SetText(d, t)
    \/ \E i \in 1..MaxInFlight, o \in Outcomes : Complete(i, o)

EngineSpec == EngineInit /\ [][EngineNext]_vars

\* the files on disk and the bookkeeping of fresh are followed in BufferSpec
\* only
Untracked == UNCHANGED <<fileText, fresh>>

Next ==
    \/ \E cfg \in SettingsValues : Untracked /\ activate(cfg)
    \/ deactivate
    \/ \E d \in WorkspaceDocs, cfg \in SettingsValues, fault \in BOOLEAN :
           Untracked /\ onDidOpenTextDocument(d, cfg, fault)
    \/ \E d \in WorkspaceDocs, cfg \in SettingsValues, fault \in BOOLEAN :
           Untracked /\ onDidSaveTextDocument(d, cfg, fault)
    \/ \E d \in WorkspaceDocs, t \in Texts, cfg \in SettingsValues, fault \in BOOLEAN :
           Untracked /\ onDidChangeTextDocument(d, t, cfg, fault)
    \/ \E d \in WorkspaceDocs, fault \in BOOLEAN : onDidCloseTextDocument(d, fault)
    \/ \E i \in 1..MaxInFlight, o \in Outcomes : Complete(i, o)

Spec == Init /\ [][Next]_vars

----------------------------------------------------------------------------
(* The buffer and the file: the events of one document, with the file on    *)
(* disk followed                                                           *)

\* the step has started a lint cycle of document d
Started(d) == Cardinality({i \in 1..Len(procs') : procs'[i].doc = d})
                  > Cardinality({i \in 1..Len(procs) : procs[i].doc = d})

\* fresh after an event for document d: a cycle started now is on the
\* present text; keep says that the text is the one of before the event
FreshAfter(d, keep) ==
    [fresh EXCEPT ![d] =
        IF Started(d) \/ (keep /\ fresh[d] = "started") THEN "started"
        ELSE IF lastOp'.err \/ lastOp'.res = "caught" THEN "failed"
        ELSE IF keep THEN fresh[d]
        ELSE "none"]

\* activation reads no file and changes none
Activated(cfg) ==
    /\ UNCHANGED fileText
    /\ activate(cfg)
    /\ fresh' = [d \in WorkspaceDocs |->
                    IF Started(d) THEN "started"
                    ELSE IF isOpen[d] /\ lastOp'.err THEN "failed"
                    ELSE "none"]

Opened(d, cfg, fault) ==
    /\ UNCHANGED fileText
    /\ onDidOpenTextDocument(d, cfg, fault)
    /\ fresh' = FreshAfter(d, TRUE)

\* the host has written the buffer to the file when the save event fires
Saved(d, cfg, fault) ==
    /\ fileText' = [fileText EXCEPT ![d] = docText[d]]
    /\ onDidSaveTextDocument(d, cfg, fault)
    /\ fresh' = FreshAfter(d, TRUE)

\* an edit changes the buffer and not the file
Changed(d, t, cfg, fault) ==
    /\ UNCHANGED fileText
    /\ onDidChangeTextDocument(d, t, cfg, fault)
    /\ fresh' = FreshAfter(d, FALSE)

BufferDocs == {"a_slim"}

BufferInit ==
    /\ Init
    /\ ~isOpen["b_js"]

BufferNext ==
    \/ \E cfg \in SettingsValues : Activated(cfg)
    \/ deactivate
    \/ \E d \in BufferDocs, cfg \in SettingsValues, fault \in BOOLEAN : Opened(d, cfg, fault)
    \/ \E d \in BufferDocs, cfg \in SettingsValues, fault \in BOOLEAN : Saved(d, cfg, fault)
    \/ \E d \in BufferDocs, t \in Texts, cfg \in SettingsValues, fault \in BOOLEAN :
           Changed(d, t, cfg, fault)
    \/ \E d \in BufferDocs, fault \in BOOLEAN : onDidCloseTextDocument(d, fault)
    \/ \E i \in 1..MaxInFlight, o \in Outcomes : Complete(i, o)

BufferSpec == BufferInit /\ [][BufferNext]_vars

----------------------------------------------------------------------------

\* the settings between which the user switches: the tool run directly or
\* through a launcher, with a configuration file that exists or does not
CommandSettings ==
    SettingsValues \cup
    { [executablePath |-> <<"b", " ", "x">>, configurationPath |-> <<"c">>],
      [executablePath |-> <<"x">>, configurationPath |-> <<"d">>] }

\* run on one document under changing settings
CommandNext ==
    \/ \E cfg \in CommandSettings : Run("a_slim", cfg)
    \/ \E i \in 1..MaxInFlight, o \in Outcomes : Complete(i, o)

CommandSpec == EngineInit /\ [][CommandNext]_vars

----------------------------------------------------------------------------
(* parseOutput called directly again and again, on real documents and on a  *)
(* stub whose lineAt throws                                                 *)

RepeatLines ==
    {Issue(n, v) : n \in { <<1>>, <<2>> }, v \in {"W", "E"}}
    \cup {Issue(<<1, 0>>, "W"), Junk}

RepeatOutputs == UNION {[1..k -> RepeatLines] : k \in 0..MaxOutputLines}

StubTexts == ParseTexts \cup { << <<"a">>, Unreadable >> }

\* the matches of a call of which some gave no diagnostic
Dropped(p) ==
    p.done /\ Len(p.diagnostics)
                < Cardinality({j \in 1..Len(p.output) : p.output[j].kind = "issue"})

\* linter.parseOutput(o, document) for a document of text t; lastOp tells
\* whether the call before this one dropped a match
ParseOutputOn(o, t) ==
    /\ parsed' = [output |-> o, text |-> t, done |-> TRUE,
                  diagnostics |-> parseOutput(Drop(o, lastIndex), t)]
    /\ lastIndex' = lastIndexAfter(o, t, lastIndex)
    /\ lastOp' = Op("parse", "a_slim", IF Dropped(parsed) THEN "afterdrop" ELSE "none", FALSE)
    /\ UNCHANGED <<activated, disposed, isOpen, docText, collection, procs,
                   fileText, fresh, built>>

RepeatNext == \E o \in RepeatOutputs, t \in StubTexts : ParseOutputOn(o, t)

RepeatSpec == EngineInit /\ [][RepeatNext]_vars

----------------------------------------------------------------------------
(* The engine on a document stub whose lineAt may throw                     *)

StubInit ==
    /\ activated = FALSE
    /\ disposed = FALSE
    /\ isOpen = [d \in Docs |-> FALSE]
    /\ docText \in {[d \in Docs |-> IF d = "a_slim" THEN t ELSE << <<"a">> >>] :
                        t \in StubTexts}
    /\ collection = [u \in Uris |-> NoEntry]
    /\ procs = <<>>
    /\ lastOp = Op("init", "a_slim", "none", FALSE)
    /\ parsed = NotParsed
    /\ fileText = [d \in WorkspaceDocs |-> << <<"a">> >>]
    /\ fresh = [d \in WorkspaceDocs |-> "none"]
    /\ built = NotBuilt
    /\ lastIndex = 0

StubNext ==
    \/ \E cfg \in SettingsValues : Run("a_slim", cfg)
    \/ \E t \in StubTexts : SetText("a_slim", t)
    \/ \E i \in 1..MaxInFlight, o \in Outcomes : Complete(i, o)

StubSpec == StubInit /\ [][StubNext]_vars

----------------------------------------------------------------------------
(* getConfiguration and buildCommandArgs called directly on settings, as    *)
(* lint calls them                                                          *)

\* the settings a user may have typed: a tool, a launcher and blanks in any
\* arrangement; a configuration path that is empty, blank, of a file that
\* exists, of one that does not, or the default name
PathChars == {"b", "x", " "}

ExecutablePaths == UNION {[1..k -> PathChars] : k \in 0..MaxPathLen}

ConfigurationPaths == { <<>>, <<" ">>, <<"c">>, <<"d">>, <<DEFAULT_CONFIG_FILE>> }

ArgsSettings == [executablePath : ExecutablePaths, configurationPath : ConfigurationPaths]

\* const config = this.getConfiguration();
\* const commandArgs = this.buildCommandArgs(config, document.uri.fsPath);
BuildCommandArgs ==
    /\ ~built.done
    /\ built' = [built EXCEPT
                    !.done = TRUE,
                    !.threw = ~ConfigurationValid(built.config),
                    !.args = IF ConfigurationValid(built.config)
                             THEN buildCommandArgs(built.config, fsPath("a_slim"))
                             ELSE <<>>]
    /\ UNCHANGED <<activated, disposed, isOpen, docText, collection, procs, lastOp,
                   parsed, fileText, fresh, lastIndex>>

ArgsInit ==
    /\ activated = FALSE
    /\ disposed = FALSE
    /\ isOpen = [d \in Docs |-> FALSE]
    /\ docText = [d \in Docs |-> << <<"a">> >>]
    /\ collection = [u \in Uris |-> NoEntry]
    /\ procs = <<>>
    /\ lastOp = Op("init", "a_slim", "none", FALSE)
    /\ parsed = NotParsed
    /\ fileText = [d \in WorkspaceDocs |-> << <<"a">> >>]
    /\ fresh = [d \in WorkspaceDocs |-> "none"]
    /\ lastIndex = 0
    /\ built \in {[config |-> cfg, done |-> FALSE, threw |-> FALSE, args |-> <<>>] :
                      cfg \in ArgsSettings}

ArgsNext == BuildCommandArgs

ArgsSpec == ArgsInit /\ [][ArgsNext]_vars

\* execa's timer kills a subprocess that is still running LINT_TIMEOUT after
\* its start, and the await of its cycle then resumes: a cycle does not wait
\* for ever for the timeout outcome
Fairness ==
    \A i \in 1..MaxInFlight : WF_vars(\E o \in LintTimeouts : Complete(i, o))

LiveSpec == Spec /\ Fairness

----------------------------------------------------------------------------
(* Claims *)

\* the step is the completion of the cycle procs[i]
Completes(i) ==
    /\ i \in 1..Len(procs)
    /\ lastOp'.op = "complete"
    /\ lastOp'.doc = procs[i].doc
    /\ lastOp'.sup = procs[i].sup
    /\ procs' = RemoveAt(procs, i)

\* C1 (as amended): a lint cycle whose document text at subprocess completion
\* differs from its snapshot leaves the whole diagnostic store unmodified, and
\* shows an error notification only if the subprocess itself failed (launch
\* exception, or stderr containing 'error' or 'not found'), which
\* executeSlimLint reports before the text comparison.
C1_StaleDiscardKeepsStore ==
    [][\A i \in 1..Len(procs) :
          (Completes(i) /\ procs[i].originalText # docText[procs[i].doc])
              => /\ collection' = collection
                 /\ lastOp'.err => (lastOp'.thrown \/ StderrIsError(lastOp'.stderr))]_vars

\* C1 (as stated): the stale cycle leaves the store entry unmodified and
\* surfaces no user-visible error at all.
C1_StaleDiscardSilent ==
    [][\A i \in 1..Len(procs) :
          (Completes(i) /\ procs[i].originalText # docText[procs[i].doc])
              => /\ collection' = collection
                 /\ ~lastOp'.err]_vars

\* C1 witness: a stale cycle has just completed, without a notification,
\* while the document had diagnostics in the store.
C1_Witness ==
    /\ lastOp.op = "complete"
    /\ lastOp.res = "stale"
    /\ ~lastOp.err
    /\ collection[uri(lastOp.doc)].diagnostics # <<>>

\* C2: once a second run for a document has started, the first cycle never
\* commits: a cycle that commits has not been superseded.
C2_SupersededNeverCommits ==
    (lastOp.op = "complete" /\ lastOp.res = "commit") => ~lastOp.sup

\* C3: each document has at most one lint subprocess running.
C3_AtMostOneSubprocessPerDocument ==
    \A d \in Docs : Cardinality({i \in 1..Len(procs) : procs[i].doc = d}) <= 1

\* C4: when a lint cycle commits, the store entry of the document is exactly
\* the sequence parsed from that cycle's stdout against the document's text:
\* nothing of the previous entry survives, so an unchanged document with
\* identical tool output gets the same diagnostics after every lint.
C4_CommitReplacesEntry ==
    (lastOp.op = "complete" /\ lastOp.res = "commit")
        => collection[uri(lastOp.doc)] =
               Entry(parseOutput(lastOp.stdout, docText[lastOp.doc]))

\* C4 witness: a cycle has committed a non-empty sequence over an entry that
\* already held diagnostics.
C4_Witness ==
    /\ lastOp.op = "complete"
    /\ lastOp.res = "commit"
    /\ lastOp.replaced
    /\ collection[uri(lastOp.doc)].diagnostics # <<>>

\* C5: a cycle whose subprocess could not be launched or was killed by the
\* timeout reports an error and leaves the store as it was.
C5_FailedRunKeepsStore ==
    [][(lastOp'.op = "complete" /\ lastOp'.kind \in {"launchfail", "timeout"})
          => /\ collection' = collection
             /\ lastOp'.err]_vars

\* C6: a closed file-backed document has no store entry (none appears until
\* a later open, save or change event for it), also when a lint cycle was in
\* flight at the close.
C6_ClosedDocumentHasNoEntry ==
    \A d \in WorkspaceDocs :
        (activated /\ ~isOpen[d] /\ scheme(d) = "file") => ~collection[uri(d)].present

\* C7: after dispose, every call of run or clear is a no-op: it starts no
\* subprocess and leaves the diagnostic store untouched.
C7_NoOpAfterDispose ==
    [][(disposed /\ lastOp'.op \in {"run", "clear"})
          => /\ procs' = procs
             /\ collection' = collection
             /\ lastOp'.res = "noop"
             /\ ~lastOp'.err]_vars

\* C7 witness: run has been called on a slim file document after dispose.
C7_Witness ==
    /\ disposed
    /\ lastOp.op = "run"
    /\ lastOp.doc = "a_slim"

\* C8: a document whose language id is not 'slim' never has a lint subprocess
\* nor a store entry, whatever run calls are made on it.
C8_NonSlimNeverLinted ==
    \A d \in Docs :
        languageId(d) # "slim"
            => /\ \A i \in 1..Len(procs) : procs[i].doc # d
               /\ ~collection[uri(d)].present
               /\ (lastOp.op = "run" /\ lastOp.doc = d) => lastOp.res \in {"skipped", "noop"}

\* C8 witness: run has been called on the JavaScript document of a live engine.
C8_Witness ==
    /\ lastOp.op = "run"
    /\ lastOp.doc = "b_js"
    /\ lastOp.res = "skipped"

\* C9: a document that is not backed by a file never has a lint subprocess
\* nor a store entry, even when its language id is 'slim'.
C9_NonFileNeverLinted ==
    \A d \in Docs :
        scheme(d) # "file"
            => /\ \A i \in 1..Len(procs) : procs[i].doc # d
               /\ ~collection[uri(d)].present

\* C10: clear on a file-scheme document deletes that document's entry and
\* leaves every other entry unchanged; on a document of another scheme it
\* changes nothing in the store.
C10_ClearFrame ==
    [][lastOp'.op = "clear"
          => collection' =
                 IF scheme(lastOp'.doc) = "file"
                 THEN [collection EXCEPT ![uri(lastOp'.doc)] = NoEntry]
                 ELSE collection]_vars

\* C10 witness: clear has been called on the untitled document while it and
\* the file document of the same path both have diagnostics in the store.
C10_Witness ==
    /\ lastOp.op = "clear"
    /\ lastOp.doc = "a_untitled"
    /\ collection[uri("a_slim")].diagnostics # <<>>
    /\ collection[uri("a_untitled")].diagnostics # <<>>

\* C11: a run on an eligible document of a live engine whose executablePath
\* or configurationPath setting is missing or blank starts no subprocess,
\* leaves the store unchanged, shows the error and lets no error escape; with
\* both settings present (also right after such a failure) the run starts a
\* lint cycle for the document and shows no error.
C11_ConfigErrorAbortsCycle ==
    [][\A d \in Docs, cfg \in SettingsValues :
          (/\ lastOp'.op = "run"
           /\ lastOp'.doc = d
           /\ lastOp'.res = RunResult(d, cfg)
           /\ ~disposed
           /\ languageId(d) = "slim"
           /\ Run(d, cfg))
              => IF Blank(cfg.executablePath) \/ Blank(cfg.configurationPath)
                 THEN /\ procs' = procs
                      /\ collection' = collection
                      /\ lastOp'.err
                      /\ ~lastOp'.threw
                 ELSE /\ Len(procs') = Len(procs) + 1
                      /\ procs'[Len(procs')].doc = d
                      /\ ~lastOp'.err]_vars

\* C11 witness: a run has just failed on its configuration while the
\* document had diagnostics in the store and an earlier cycle in flight, and
\* a run with corrected settings can follow.
C11_Witness ==
    /\ lastOp.op = "run"
    /\ lastOp.res = "configerror"
    /\ lastOp.err
    /\ collection[uri(lastOp.doc)].diagnostics # <<>>
    /\ Len(procs) = 1
    /\ ENABLED Run(lastOp.doc, [executablePath |-> <<"x">>, configurationPath |-> <<"c">>])

\* C12: a cycle whose subprocess ran to its end with a non-zero exit code,
\* issue lines on stdout and empty stderr, and which is neither stale nor
\* dropped, shows no error and commits the diagnostics parsed from that
\* stdout.
C12_NonZeroExitIsSuccess ==
    (/\ lastOp.op = "complete"
     /\ lastOp.kind = "exit"
     /\ exitCode(lastOp) # 0
     /\ lastOp.stdout # <<>>
     /\ lastOp.stderr = ""
     /\ lastOp.res \notin {"stale", "dropped"})
        => /\ ~lastOp.err
           /\ ~lastOp.threw
           /\ collection[uri(lastOp.doc)] =
                  Entry(parseOutput(lastOp.stdout, docText[lastOp.doc]))

\* C12 witness: such a cycle has committed two diagnostics.
C12_Witness ==
    /\ lastOp.op = "complete"
    /\ lastOp.kind = "exit"
    /\ exitCode(lastOp) # 0
    /\ lastOp.stderr = ""
    /\ lastOp.res = "commit"
    /\ Len(collection[uri(lastOp.doc)].diagnostics) = 2

\* C13: no step of a handler or of a lint cycle lets an error escape, be it
\* a configuration error, a failed launch or a throw of run or clear; and
\* after a step in which an error was shown or caught, the dispatcher still
\* takes the close event of every open document and the open event of every
\* closed one.
C13_NoErrorEscapesDispatcher ==
    /\ [][~lastOp'.threw]_vars
    /\ []((activated /\ (lastOp.err \/ lastOp.res = "caught"))
            => \A d \in WorkspaceDocs :
                   IF isOpen[d]
                   THEN ENABLED onDidCloseTextDocument(d, FALSE)
                   ELSE ENABLED onDidOpenTextDocument(
                            d, [executablePath |-> <<" ">>, configurationPath |-> <<"c">>], FALSE))

\* C13 witness: a throw of linter.run has just been caught by the change
\* handler while a lint cycle of the document was in flight.
C13_Witness ==
    /\ lastOp.op = "change"
    /\ lastOp.res = "caught"
    /\ ~lastOp.threw
    /\ \E i \in 1..Len(procs) : procs[i].doc = lastOp.doc

\* the cycles of document d in a sequence of cycles
CyclesOf(ps, d) == {i \in 1..Len(ps) : ps[i].doc = d}

\* C14 (as amended): while the engine is not disposed, every open, save and
\* change event calls run on its document (with run's effect: a cycle on the
\* event's text when run gets as far as the subprocess), every close event
\* calls clear on its document, and activation calls run once for each
\* document that is open.
C14_EventsForwardedWhileLive ==
    [][/\ (lastOp'.op \in {"open", "save", "change"} /\ ~disposed)
            => /\ lastOp'.res \in {"skipped", "configerror", "started", "caught"}
               /\ lastOp'.res = "started"
                     => \E cfg \in SettingsValues :
                            procs' = lint(procs, lastOp'.doc, cfg, docText'[lastOp'.doc])
               /\ lastOp'.res # "started" => procs' = procs
       /\ (lastOp'.op = "close" /\ ~disposed)
            => /\ lastOp'.res \in {"cleared", "skipped", "caught"}
               /\ lastOp'.res = "cleared"
                     => collection' = [collection EXCEPT ![uri(lastOp'.doc)] = NoEntry]
       /\ lastOp'.op = "activate"
            => \A d \in WorkspaceDocs :
                   Cardinality(CyclesOf(procs', d)) =
                       IF isOpen[d] /\ languageId(d) = "slim" /\ ~lastOp'.err
                       THEN 1 ELSE 0]_vars

\* C14 (as stated): every open, save, change and close event reaches the
\* engine.
C14_EveryEventForwarded ==
    [][lastOp'.op \in {"open", "save", "change", "close"}
          => lastOp'.res # "guarded"]_vars

\* C14 witness: a change event on a live engine has started a cycle on the
\* new text while an older cycle of the document was in flight.
C14_Witness ==
    /\ ~disposed
    /\ lastOp.op = "change"
    /\ lastOp.res = "started"
    /\ Len(procs) = 2
    /\ procs[2].originalText = docText[lastOp.doc]
    /\ procs[1].originalText # docText[lastOp.doc]

\* C15: every lint cycle that starts eventually finishes, whatever the
\* subprocess does by itself. Cycles wait in start order and a completion
\* moves the later ones one place forward, so a cycle that never finished
\* would from some point on stay at one place k with no completion at the
\* places 1..k: for every k, if k cycles are in flight for ever, completions
\* at the places 1..k occur again and again.
C15_EveryCycleFinishes ==
    \A k \in 1..MaxInFlight :
        <>[](Len(procs) >= k)
            => []<><<\E i \in 1..k, o \in Outcomes : Complete(i, o)>>_vars

\* C15 witness: a cycle has been finished by the timeout kill.
C15_Witness ==
    /\ lastOp.op = "complete"
    /\ lastOp.kind = "timeout"
    /\ lastOp.res = "commit"

\* the line number an output line reports
Reported(l) == CHOOSE n \in ParseLineNumbers : Decimal(n) = l.lineStr

\* the output lines of a direct call that match the pattern and report a
\* line of the document (0 counting as the first line)
Valid ==
    {j \in 1..Len(parsed.output) :
        /\ parsed.output[j].kind = "issue"
        /\ Reported(parsed.output[j]) <= lineCount(parsed.text)}

\* the place in the result of the diagnostic of the valid output line j
Rank(j) == Cardinality({i \in Valid : i <= j})

\* C16: for every output line '<file>:N [W|E] Rule: Msg' with
\* 1 <= N <= lineCount, parseOutput returns, at the place of that line among
\* the valid ones, a diagnostic on line N-1 with severity Warning for W and
\* Error for E and with message 'Rule: Msg'.
C16_IssueLineYieldsDiagnostic ==
    parsed.done
        => \A j \in 1..Len(parsed.output), n \in 1..lineCount(parsed.text) :
               /\ parsed.output[j] = Issue(Decimal(n), "W")
                     => /\ Rank(j) <= Len(parsed.diagnostics)
                        /\ parsed.diagnostics[Rank(j)].line = n - 1
                        /\ parsed.diagnostics[Rank(j)].severity = "Warning"
                        /\ parsed.diagnostics[Rank(j)].message = <<"Rule", ": ", "Msg">>
               /\ parsed.output[j] = Issue(Decimal(n), "E")
                     => /\ Rank(j) <= Len(parsed.diagnostics)
                        /\ parsed.diagnostics[Rank(j)].line = n - 1
                        /\ parsed.diagnostics[Rank(j)].severity = "Error"
                        /\ parsed.diagnostics[Rank(j)].message = <<"Rule", ": ", "Msg">>

\* C16 witness: an error on line 2 and a warning on line 1 of a two-line
\* document have been parsed into two diagnostics.
C16_Witness ==
    /\ parsed.done
    /\ parsed.output = << Issue(<<2>>, "E"), Issue(<<1>>, "W") >>
    /\ lineCount(parsed.text) = 2
    /\ Len(parsed.diagnostics) = 2

\* C17: the result has exactly one diagnostic for each valid output line, in
\* the order of the output: a match that reports a line beyond the document
\* adds nothing, and takes nothing away from the matches around it.
C17_OutOfRangeDropped ==
    parsed.done
        => /\ Len(parsed.diagnostics) = Cardinality(Valid)
           /\ \A j \in Valid :
                  LET n == Reported(parsed.output[j]) IN
                  parsed.diagnostics[Rank(j)].line = IF n = 0 THEN 0 ELSE n - 1

\* C17 witness: an output whose first match reports line 10 and whose second
\* match reports line 2 of a two-line document has given one diagnostic.
C17_Witness ==
    /\ parsed.done
    /\ parsed.output = << Issue(<<1, 0>>, "W"), Issue(<<2>>, "E") >>
    /\ lineCount(parsed.text) = 2
    /\ Len(parsed.diagnostics) = 1
    /\ parsed.diagnostics[1].line = 1

\* C18: parseOutput returns the empty sequence for an output without a
\* matching line (the empty output included), and in any output the
\* unmatched lines add no diagnostic: there are at most as many diagnostics
\* as matching lines.
C18_UnmatchedLinesYieldNothing ==
    parsed.done
        => LET matches == {j \in 1..Len(parsed.output) : parsed.output[j].kind = "issue"}
           IN /\ matches = {} => parsed.diagnostics = <<>>
              /\ Len(parsed.diagnostics) <= Cardinality(matches)

\* C18 witness: an output of an unmatched line followed by a warning has
\* given one diagnostic.
C18_Witness ==
    /\ parsed.done
    /\ parsed.output = << Junk, Issue(<<1>>, "W") >>
    /\ Len(parsed.diagnostics) = 1

\* C19: an output line that reports line 0 gives a diagnostic on line 0, and
\* no diagnostic has a negative line.
C19_LineZeroClamped ==
    parsed.done
        => /\ \A k \in 1..Len(parsed.diagnostics) : parsed.diagnostics[k].line >= 0
           /\ \A j \in 1..Len(parsed.output) :
                  (parsed.output[j].kind = "issue" /\ parsed.output[j].lineStr = <<0>>)
                      => /\ Rank(j) <= Len(parsed.diagnostics)
                         /\ parsed.diagnostics[Rank(j)].line = 0
                         /\ parsed.diagnostics[Rank(j)].severity =
                                IF parsed.output[j].sev = "W" THEN "Warning" ELSE "Error"

\* C19 witness: an output that reports line 0 and then line 1 has given two
\* diagnostics on line 0.
C19_Witness ==
    /\ parsed.done
    /\ parsed.output = << Issue(<<0>>, "E"), Issue(<<1>>, "W") >>
    /\ Len(parsed.diagnostics) = 2
    /\ parsed.diagnostics[1].line = 0
    /\ parsed.diagnostics[2].line = 0

\* C20: linting is debounced: of two content-change events for one document
\* that follow each other with nothing in between, at most one starts a lint
\* subprocess.
C20_ChangeBurstDebounced ==
    [][(/\ lastOp.op = "change"
        /\ lastOp.res = "started"
        /\ lastOp'.op = "change"
        /\ lastOp'.doc = lastOp.doc)
          => lastOp'.res # "started"]_vars

\* C21: once the engine is disposed the store stays as dispose left it
\* (empty), and a lint cycle that completes then is dropped before its output
\* is parsed.
C21_NoStoreWriteAfterDispose ==
    disposed
        => /\ collection = [u \in Uris |-> NoEntry]
           /\ lastOp.op = "complete" => lastOp.res = "dropped"

\* C21 witness: a cycle started before dispose has completed after it, with
\* issue lines on stdout, while another cycle is still in flight.
C21_Witness ==
    /\ disposed
    /\ lastOp.op = "complete"
    /\ lastOp.kind = "exit"
    /\ lastOp.stderr = ""
    /\ procs # <<>>

\* C24: when the subprocess of a lint cycle runs to its end while the engine
\* is not disposed and the document's text is the cycle's snapshot, the
\* completion commits: after it the document's store entry is the parse of
\* that subprocess's stdout.
C24_UnchangedTextCommits ==
    [][\A i \in 1..Len(procs) :
          (/\ Completes(i)
           /\ ~disposed
           /\ procs[i].originalText = docText[procs[i].doc]
           /\ lastOp'.kind = "exit"
           /\ ~lastOp'.thrown)
              => /\ lastOp'.res = "commit"
                 /\ collection'[uri(procs[i].doc)] =
                        Entry(parseOutput(lastOp'.stdout, docText'[procs[i].doc]))]_vars

\* C24 witness: a cycle on the two-line text has run to its end and left
\* two diagnostics in the store.
C24_Witness ==
    /\ lastOp.op = "complete"
    /\ lastOp.kind = "exit"
    /\ lastOp.res = "commit"
    /\ Len(lastOp.stdout) = 3
    /\ lineCount(docText[lastOp.doc]) = 2
    /\ Len(collection[uri(lastOp.doc)].diagnostics) = 2

\* C25: a lint completion or a clear for a document leaves the store entry
\* of every other document as it was.
C25_OtherEntriesUntouched ==
    [][lastOp'.op \in {"complete", "clear"}
          => \A u \in Uris \ {uri(lastOp'.doc)} : collection'[u] = collection[u]]_vars

\* C25 witness: with cycles of two documents in flight, the one started
\* later has committed first, while the other document had diagnostics in
\* the store.
C25_Witness ==
    /\ lastOp.op = "complete"
    /\ lastOp.res = "commit"
    /\ lastOp.doc = "a_untitled"
    /\ collection[uri("a_untitled")].diagnostics # <<>>
    /\ collection[uri("a_slim")].diagnostics # <<>>
    /\ Len(procs) = 1
    /\ procs[1].doc = "a_slim"

\* C26: a lint cycle whose subprocess wrote to stderr is a failed cycle: the
\* error is shown and the store is left as it was, whatever is on stdout.
C26_StderrFailsCycle ==
    [][(lastOp'.op = "complete" /\ lastOp'.stderr # "")
          => /\ lastOp'.err
             /\ collection' = collection]_vars

\* C27: while lint subprocesses of a document are running, the engine's
\* handle for the document is on the one started last.
C27_HandleOnLatestSubprocess ==
    \A d \in Docs :
        CyclesOf(procs, d) # {}
            => /\ processes(procs, d) \in CyclesOf(procs, d)
               /\ \A i \in CyclesOf(procs, d) : i <= processes(procs, d)

\* C28: after dispose no lint subprocess is left running.
C28_DisposeCancelsInFlight ==
    disposed => procs = <<>>

\* C29: a lint cycle that completes after dispose shows no notification and
\* writes nothing to the output channel, however its subprocess ended.
C29_SilentAfterDispose ==
    (disposed /\ lastOp.op = "complete")
        => /\ ~lastOp.err
           /\ ~executeLogs(lastOp)

\* the command line that each of the valid settings stands for
ExpectedCommand(cfg) ==
    (IF cfg.executablePath = <<"x">> THEN << <<"x">> >> ELSE << <<"b">>, <<"x">> >>)
    \o (IF cfg.configurationPath = <<"c">> THEN << <<"--config">>, <<"c">> >> ELSE <<>>)
    \o << <<"/w/a.slim">> >>

\* C30: a run that starts a cycle gives it the command line of the settings
\* read at that call and leaves the command lines of the cycles in flight as
\* they are, and the subprocess that completes is the one of the command
\* line the cycle was started with.
C30_SettingsReadAtStart ==
    [][/\ \A cfg \in CommandSettings :
             (/\ lastOp'.op = "run"
              /\ lastOp'.res = "started"
              /\ Run("a_slim", cfg))
                 => /\ Len(procs') = Len(procs) + 1
                    /\ procs'[Len(procs')].command = ExpectedCommand(cfg)
                    /\ \A i \in 1..Len(procs) : procs'[i].command = procs[i].command
       /\ \A i \in 1..Len(procs) :
             Completes(i) /\ lastOp'.command = procs[i].command
                 => \A j \in 1..Len(procs') :
                        procs'[j].command = RemoveAt(procs, i)[j].command
       /\ lastOp'.op = "complete"
             => \E i \in 1..Len(procs) : Completes(i) /\ lastOp'.command = procs[i].command]_vars

\* C30 witness: a cycle started through the launcher has completed while a
\* cycle started later, under settings without launcher and with a missing
\* configuration file, is in flight.
C30_Witness ==
    /\ lastOp.op = "complete"
    /\ lastOp.command = << <<"b">>, <<"x">>, <<"--config">>, <<"c">>, <<"/w/a.slim">> >>
    /\ Len(procs) = 1
    /\ procs[1].command = << <<"x">>, <<"/w/a.slim">> >>

\* C22: when a lint cycle commits, what its subprocess read at the document's
\* path is the document's text of that moment.
C22_LintedContentIsText ==
    [][\A i \in 1..Len(procs) :
          (Completes(i) /\ lastOp'.res = "commit")
              => procs[i].linted = docText[procs[i].doc]]_vars

\* C23 (as amended): when a lint cycle is discarded because the text
\* changed, an event has run the engine on the present text: a cycle on it
\* has been started, or that run ended in an error (a reported configuration
\* error, or a throw that the handler caught).
C23_DiscardHasFreshRun ==
    [][\A i \in 1..Len(procs) :
          (Completes(i) /\ lastOp'.res = "stale")
              => fresh'[procs[i].doc] \in {"started", "failed"}]_vars

\* C23 (as stated): when a lint cycle is discarded because the text changed,
\* a cycle on the present text has been started.
C23_DiscardHasFreshCycle ==
    [][\A i \in 1..Len(procs) :
          (Completes(i) /\ lastOp'.res = "stale")
              => fresh'[procs[i].doc] = "started"]_vars

\* C23 witness: a cycle has been discarded for a changed text while the
\* cycle that the change event started on the present text is in flight.
C23_Witness ==
    /\ lastOp.op = "complete"
    /\ lastOp.res = "stale"
    /\ fresh[lastOp.doc] = "started"
    /\ \E i \in 1..Len(procs) :
           procs[i].doc = lastOp.doc /\ procs[i].originalText = docText[lastOp.doc]

RECURSIVE Join(_)
\* the tokens written one after the other with one blank between them
Join(tokens) ==
    IF tokens = <<>> THEN <<>>
    ELSE IF Len(tokens) = 1 THEN tokens[1]
    ELSE tokens[1] \o <<" ">> \o Join(Tail(tokens))

RECURSIVE Collapse(_)
\* the string with every run of blanks made one blank
Collapse(s) ==
    IF Len(s) < 2 THEN s
    ELSE IF s[1] = " " /\ s[2] = " " THEN Collapse(Tail(s))
    ELSE <<s[1]>> \o Collapse(Tail(s))

C32_CommandTokenNonEmpty ==
    (built.done /\ ~built.threw) => built.args[1] # <<>>

\* C33: between calls the shared pattern's scan position is at the start,
\* and the result of every call of parseOutput is the one that its output
\* and document give when scanned from the start, whatever the calls before
\* it were given and whatever they dropped.
C33_ParseOutputIsPure ==
    /\ lastIndex = 0
    /\ parsed.done => parsed.diagnostics = parseOutput(parsed.output, parsed.text)

\* C33 witness: after a call that dropped a match, a call on two matching
\* lines of a two-line document has given both diagnostics.
C33_Witness ==
    /\ lastOp.op = "parse"
    /\ lastOp.res = "afterdrop"
    /\ parsed.done
    /\ parsed.output = << Issue(<<2>>, "E"), Issue(<<1>>, "W") >>
    /\ parsed.text = LinesOf(2)
    /\ Len(parsed.diagnostics) = 2
    /\ parsed.diagnostics[1].line = 1

\* C34: when a lint cycle commits, every diagnostic of the committed
\* sequence is on a line of the document as it is at that moment:
\* 0 <= line < lineCount.
C34_CommittedLinesInRange ==
    [][\A i \in 1..Len(procs) :
          (Completes(i) /\ lastOp'.res = "commit")
              => LET ds == collection'[uri(procs[i].doc)].diagnostics IN
                 \A k \in 1..Len(ds) :
                     /\ 0 <= ds[k].line
                     /\ ds[k].line < lineCount(docText'[procs[i].doc])]_vars

\* C34 witness: a cycle on a one-line document whose tool reported lines 2
\* and 1 has committed the diagnostic of line 1 alone.
C34_Witness ==
    /\ lastOp.op = "complete"
    /\ lastOp.res = "commit"
    /\ lastOp.stdout = << Issue(<<2>>, "E"), Junk, Issue(<<1>>, "W") >>
    /\ lineCount(docText[lastOp.doc]) = 1
    /\ Len(collection[uri(lastOp.doc)].diagnostics) = 1
    /\ collection[uri(lastOp.doc)].diagnostics[1].line = 0

\* C35: the diagnostics that parseOutput returns are, one for one and in
\* the same order, those of the output lines that match and report a line of
\* the document: the k-th diagnostic has the line and the severity of the
\* k-th such output line, whatever the line numbers are, and no output line
\* gives more than one diagnostic.
C35_OrderOfAppearance ==
    parsed.done
        => /\ Len(parsed.diagnostics) <= Len(parsed.output)
           /\ \A k \in 1..Len(parsed.diagnostics) :
                  \E j \in Valid :
                      /\ Rank(j) = k
                      /\ parsed.diagnostics[k].line
                             = Max(Reported(parsed.output[j]) - 1, 0)
                      /\ parsed.diagnostics[k].severity
                             = IF parsed.output[j].sev = "W" THEN "Warning" ELSE "Error"

\* C35 witness: an output that reports line 2 before line 1 has given the
\* diagnostic of line 2 before that of line 1.
C35_Witness ==
    /\ parsed.done
    /\ parsed.output = << Issue(<<2>>, "W"), Issue(<<1>>, "E") >>
    /\ lineCount(parsed.text) = 2
    /\ Len(parsed.diagnostics) = 2
    /\ parsed.diagnostics[1].line = 1
    /\ parsed.diagnostics[1].severity = "Warning"
    /\ parsed.diagnostics[2].line = 0

\* the matches of an output on a document of text t whose diagnostic can be
\* made: their line is in the document and can be read
Constructible(out, t) ==
    {j \in 1..Len(out) :
        /\ out[j].kind = "issue"
        /\ Max(parseInt(out[j].lineStr) - 1, 0) < lineCount(t)
        /\ t[Max(parseInt(out[j].lineStr) - 1, 0) + 1] # Unreadable}

\* C36: a match whose diagnostic cannot be made because the document's line
\* accessor throws is dropped alone: the cycle commits one diagnostic for
\* every other match that reports a line of the document, in the order of
\* the output, lets no error escape, and shows an error only if the
\* subprocess itself failed.
C36_FailedMatchDroppedAlone ==
    [][\A i \in 1..Len(procs) :
          (Completes(i) /\ lastOp'.res = "commit")
              => LET t == docText[procs[i].doc]
                     out == lastOp'.stdout
                     ds == collection'[uri(procs[i].doc)].diagnostics
                     good == Constructible(out, t)
                 IN /\ Len(ds) = Cardinality(good)
                    /\ \A j \in good :
                           ds[Cardinality({h \in good : h <= j})].line
                               = Max(parseInt(out[j].lineStr) - 1, 0)
                    /\ ~lastOp'.threw
                    /\ lastOp'.err
                          => (lastOp'.thrown \/ StderrIsError(lastOp'.stderr))]_vars

\* C36 witness: a cycle on a two-line stub whose second line cannot be read
\* has committed, of an output that reports lines 2 and 1, the diagnostic of
\* line 1 alone, without an error shown.
C36_Witness ==
    /\ lastOp.op = "complete"
    /\ lastOp.res = "commit"
    /\ ~lastOp.err
    /\ lastOp.stdout = << Issue(<<2>>, "E"), Junk, Issue(<<1>>, "W") >>
    /\ docText[lastOp.doc] = << <<"a">>, Unreadable >>
    /\ Len(collection[uri(lastOp.doc)].diagnostics) = 1
    /\ collection[uri(lastOp.doc)].diagnostics[1].line = 0

\* C37: the first call of dispose marks the engine disposed, logs and
\* disposes the collection; every later call returns at once: it logs
\* nothing, does not dispose the collection again and changes nothing.
C37_DisposeIdempotent ==
    [][lastOp'.op = "dispose"
          => IF disposed
             THEN /\ lastOp'.res = "noop"
                  /\ UNCHANGED <<disposed, collection, procs>>
             ELSE /\ lastOp'.res = "disposed"
                  /\ disposed'
                  /\ \A u \in Uris : collection'[u] = NoEntry
                  /\ UNCHANGED procs]_vars

\* C37 witness: dispose has been called on a disposed engine that has a
\* lint cycle in flight.
C37_Witness ==
    /\ lastOp.op = "dispose"
    /\ lastOp.res = "noop"
    /\ disposed
    /\ procs # <<>>

====
